---------------------------- MODULE Spec2Model ----------------------------
(* Model of the kq_cx in-memory calendar cache (src/src/lib.rs,            *)
(* src/src/math.rs).                                                       *)
(*                                                                         *)
(* Two families of specifications share the module:                        *)
(*   SpecMath  - the pure functions of math.rs and the page-index builder  *)
(*               of lib.rs applied to calendars and inputs drawn from      *)
(*               bounded sets;                                             *)
(*   Spec      - the shared-memory cache protocol of lib.rs: concurrent    *)
(*               backends calling populate, invalidate and the lookups,    *)
(*               with the three LWLocks.                                   *)
(* Indices are 0-based as in the source; TLA+ sequences are 1-based, so    *)
(* dates[i] of the source is dates[i + 1] here.                            *)
EXTENDS Integers, Sequences, FiniteSets, TLC

\* ------------------------------------------------------------------------
\* Bounds of the model
\* ------------------------------------------------------------------------

\* Longest dates vector of a calendar drawn in SpecMath.
MaxLen == 3

\* ------------------------------------------------------------------------
\* Program constants
\* ------------------------------------------------------------------------

MAX_CALENDARS == 128
MAX_ENTRIES_PER_CALENDAR == 524288

\* i32: the type of dates (epoch days), intervals and indices in math.rs.
MaxI32 == 2147483647
MinI32 == -MaxI32 - 1

\* math.rs:153-154, as PostgreSQL epoch days (days since 2000-01-01).
DATE_PAST == -10957
DATE_FUTURE == 72684

\* page sizes of calculate_page_size
WEEKLY_PAGE == 16
MONTHLY_PAGE == 32

\* The outcome of an i32-valued call: the value it returns, or a panic
\* (which pgrx turns into an ERROR of the calling statement).
Val(v) == [panic |-> FALSE, val |-> v]
Panic == [panic |-> TRUE, val |-> 0]

\* ------------------------------------------------------------------------
\* i32 arithmetic
\* ------------------------------------------------------------------------

\* a + b leaves the i32 range (a, b in range).
AddOverflows(a, b) ==
    \/ (b > 0 /\ a > MaxI32 - b)
    \/ (b < 0 /\ a < MinI32 - b)

\* a + b as a release build computes it (two's complement wrap-around).
WrappingAdd(a, b) ==
    IF b > 0 /\ a > MaxI32 - b THEN (a - MaxI32 - 1) + (b - MaxI32 - 1)
    ELSE IF b < 0 /\ a < MinI32 - b THEN (a + MaxI32 + 1) + (b + MaxI32 + 1)
    ELSE a + b

\* The outcomes of the i32 expression `a + b`: the sum when it fits; on
\* overflow a panic (overflow checks on, the debug profile) or the wrapped
\* sum (overflow checks off, the release profile).
I32Add(a, b) ==
    IF AddOverflows(a, b) THEN {Panic, Val(WrappingAdd(a, b))} ELSE {Val(a + b)}

\* Rust's `/` on i32 with a positive divisor: truncation toward zero.
TruncDiv(a, b) ==
    IF a >= 0 THEN a \div b
    ELSE LET m == -(a + 1)   \* m = |a| - 1 >= 0, no overflow for a = MinI32
         IN  -((m \div b) + (IF m % b = b - 1 THEN 1 ELSE 0))

\* ------------------------------------------------------------------------
\* Calendar (lib.rs:60-66) and the page index
\* ------------------------------------------------------------------------

\* Calendar::default()
DefaultCalendar ==
    [dates |-> <<>>, page_size |-> 0, first_page_offset |-> 0, page_map |-> <<>>]

\* math.rs:19-27.  entry_count as f64 > (last - first) as f64 / 7.0
calculate_page_size(first_date, last_date, entry_count) ==
    IF 7 * entry_count > last_date - first_date THEN WEEKLY_PAGE ELSE MONTHLY_PAGE

\* PageMapScan inserting the index after calendar_date_index
RECURSIVE PageMapScan_next(_, _, _, _, _, _)
PageMapScan_next(dates, ps, fpo, pm, prev, i) ==
    IF i >= Len(dates) THEN pm
    ELSE LET page_index == TruncDiv(dates[i + 1], ps) - fpo
             n == IF page_index > prev THEN page_index - prev ELSE 0
             pm2 == pm \o [k \in 1..n |-> i + 1]
         IN  PageMapScan_next(dates, ps, fpo, pm2, prev + n, i + 1)

\* lib.rs:308-319: the scan that creates the page map.  pm is the map so
\* far, prev the last page index appended, i the 0-based date index.
RECURSIVE PageMapScan(_, _, _, _, _, _)
PageMapScan(dates, ps, fpo, pm, prev, i) ==
    IF i >= Len(dates) THEN pm
    ELSE LET page_index == TruncDiv(dates[i + 1], ps) - fpo
             n == IF page_index > prev THEN page_index - prev ELSE 0
             pm2 == pm \o [k \in 1..n |-> i]
         IN  PageMapScan(dates, ps, fpo, pm2, prev + n, i + 1)

\* lib.rs:294-326 for one calendar: ok is FALSE when the closure panics
\* (no first date, or the page map does not fit its heapless::Vec, which
\* leaves the calendar as it was), else cal is the calendar with its page
\* index set.  The page map is appended to whatever calendar.page_map
\* already holds (extend_from_slice).
BuildPageIndex(calendar) ==
    IF Len(calendar.dates) = 0 THEN [ok |-> FALSE, cal |-> calendar]
    ELSE LET dates == calendar.dates
             first_date == dates[1]
             last_date == dates[Len(dates)]
             ps == calculate_page_size(first_date, last_date, Len(dates))
             fpo == TruncDiv(first_date, ps)
             pm == PageMapScan(dates, ps, fpo, <<0>>, 0, 0)
         IN  IF Len(calendar.page_map) + Len(pm) > MAX_ENTRIES_PER_CALENDAR
             THEN [ok |-> FALSE,
                   cal |-> [calendar EXCEPT !.page_size = ps,
                                            !.first_page_offset = fpo]]
             ELSE [ok |-> TRUE,
                   cal |-> [dates |-> dates, page_size |-> ps,
                            first_page_offset |-> fpo,
                            page_map |-> calendar.page_map \o pm]]

\* left_binary_search returning `left` where the source returns `left - 1`
RECURSIVE left_binary_search_ceil(_, _, _, _)
left_binary_search_ceil(arr, left, right, value) ==
    IF left > right THEN left
    ELSE LET mid == left + ((right - left) \div 2)
         IN  IF arr[mid + 1] < value
             THEN left_binary_search_ceil(arr, mid + 1, right, value)
             ELSE IF arr[mid + 1] > value
             THEN left_binary_search_ceil(arr, left, mid - 1, value)
             ELSE mid

\* math.rs:42-52
RECURSIVE left_binary_search(_, _, _, _)
left_binary_search(arr, left, right, value) ==
    IF left > right THEN left - 1
    ELSE LET mid == left + ((right - left) \div 2)
         IN  IF arr[mid + 1] < value THEN left_binary_search(arr, mid + 1, right, value)
             ELSE IF arr[mid + 1] > value THEN left_binary_search(arr, left, mid - 1, value)
             ELSE mid

\* get_closest_index_from_left with the past-the-end sentinel off by one
get_closest_index_from_left_sentinel(date, calendar) ==
    LET page_map_index == TruncDiv(date, calendar.page_size) - calendar.first_page_offset
    IN  IF page_map_index >= Len(calendar.page_map) THEN -Len(calendar.dates)
        ELSE IF page_map_index < 0 THEN -1
        ELSE LET inclusive_start_index == calendar.page_map[page_map_index + 1]
                 exclusive_end_index ==
                     IF page_map_index < Len(calendar.page_map) - 1
                     THEN calendar.page_map[page_map_index + 2]
                     ELSE Len(calendar.dates)
             IN  left_binary_search(calendar.dates, inclusive_start_index,
                                    exclusive_end_index - 1, date)

\* math.rs:77-104, for a calendar whose page_size is not 0.
get_closest_index_from_left(date, calendar) ==
    LET page_map_index == TruncDiv(date, calendar.page_size) - calendar.first_page_offset
    IN  IF page_map_index >= Len(calendar.page_map) THEN -Len(calendar.dates) - 1
        ELSE IF page_map_index < 0 THEN -1
        ELSE LET inclusive_start_index == calendar.page_map[page_map_index + 1]
                 exclusive_end_index ==
                     IF page_map_index < Len(calendar.page_map) - 1
                     THEN calendar.page_map[page_map_index + 2]
                     ELSE Len(calendar.dates)
             IN  left_binary_search(calendar.dates, inclusive_start_index,
                                    exclusive_end_index - 1, date)

\* AddDaysResult with `result_date_index <= 0` where the source has `< 0`
AddDaysResult_le(calendar, prev_date_index, r) ==
    IF r.panic THEN Panic
    ELSE IF prev_date_index < 0 \/ r.val <= 0 THEN Val(DATE_PAST)
    ELSE IF r.val >= Len(calendar.dates) THEN Val(DATE_FUTURE)
    ELSE Val(calendar.dates[r.val + 1])

\* math.rs:165-177: the part of add_calendar_days after the index
\* arithmetic, for one outcome r of prev_date_index + interval.
AddDaysResult(calendar, prev_date_index, r) ==
    IF r.panic THEN Panic
    ELSE IF prev_date_index < 0 \/ r.val < 0 THEN Val(DATE_PAST)
    ELSE IF r.val >= Len(calendar.dates) THEN Val(DATE_FUTURE)
    ELSE Val(calendar.dates[r.val + 1])

\* math.rs:156-178: the set of outcomes of add_calendar_days.  The division
\* by a page_size of 0 in get_closest_index_from_left (math.rs:78) panics in
\* every build.
add_calendar_days(calendar, input_date, interval) ==
    IF Len(calendar.dates) = 0 THEN I32Add(input_date, interval)
    ELSE IF calendar.page_size = 0 THEN {Panic}
    ELSE LET prev_date_index == get_closest_index_from_left(input_date, calendar)
         IN  {AddDaysResult(calendar, prev_date_index, r) :
                  r \in I32Add(prev_date_index, interval)}

\* ------------------------------------------------------------------------
\* heapless::FnvIndexMap, as the sequence of its entries in insertion order
\* ------------------------------------------------------------------------

MapKeys(m) == {m[i].k : i \in 1..Len(m)}

MapHas(m, key) == key \in MapKeys(m)

MapIndex(m, key) == CHOOSE i \in 1..Len(m) : m[i].k = key

MapGet(m, key) == m[MapIndex(m, key)].v

\* get_mut(key) followed by an assignment to the entry
MapSet(m, key, val) == [m EXCEPT ![MapIndex(m, key)].v = val]

\* insert(key, val): replaces the value of a key already present (keeping
\* its place), appends a new key, and is Err (ok FALSE, a panic after
\* unwrap) when the key is new and the map holds `cap` entries.
MapInsert(m, key, val, cap) ==
    IF MapHas(m, key) THEN [ok |-> TRUE, map |-> MapSet(m, key, val)]
    ELSE IF Len(m) >= cap THEN [ok |-> FALSE, map |-> m]
    ELSE [ok |-> TRUE, map |-> Append(m, [k |-> key, v |-> val])]

\* ------------------------------------------------------------------------
\* State
\* ------------------------------------------------------------------------

VARIABLES
    \* SpecMath: one calendar and the last call made on it
    m_cal,        \* the Calendar
    m_call,       \* [op, date, interval]: the last call and its arguments
    m_ret,        \* its outcome
    \* Spec: the shared memory of lib.rs:81-83 and the backends
    id_map,       \* CALENDAR_ID_MAP: entries [k: calendar id, v: Calendar]
    xuid_map,     \* CALENDAR_XUID_ID_MAP: entries [k: xuid, v: calendar id]
    control,      \* CALENDAR_CONTROL
    id_lock,      \* LWLock of CALENDAR_ID_MAP: [excl, share]
    xuid_lock,    \* LWLock of CALENDAR_XUID_ID_MAP: [excl, share]
    ds,           \* the DataSource snapshot the queries read
    pc,           \* per backend: where it is in its call
    op,           \* per backend: the call it is making
    loc,          \* per backend: locals of ensure_cache_populated / kq_cx_add_days
    ret,          \* per backend: what its call returned
    hist          \* per backend: history of the call (for stating the claims)

mathVars == <<m_cal, m_call, m_ret>>
cacheVars == <<id_map, xuid_map, control, id_lock, xuid_lock, ds, pc, op, loc, ret, hist>>
vars == <<m_cal, m_call, m_ret, id_map, xuid_map, control, id_lock, xuid_lock,
          ds, pc, op, loc, ret, hist>>

\* ------------------------------------------------------------------------
\* SpecMath: inputs
\* ------------------------------------------------------------------------

\* Epoch days the calendars are drawn from: both sides of day 0, page
\* boundaries of both page sizes, and the monthly dates 2024-01-01,
\* 2024-02-01, 2024-03-01.
DateSet == {-33, -17, -16, -1, 0, 15, 16, 32, 64, 8766, 8797, 8826}

IsAscending(s) == \A i \in 1..(Len(s) - 1) : s[i] < s[i + 1]

\* Strictly ascending dates vectors of at most MaxLen entries.
DatesVectors ==
    {s \in UNION {[1..n -> DateSet] : n \in 0..MaxLen} : IsAscending(s)}

\* Runs of consecutive days, longer than a page: a weekly calendar astride
\* day 0, one before day 0 and one after it that start on a page boundary,
\* and a monthly calendar with a run astride day 0 and one late date.
DenseRun(lo, n) == [i \in 1..n |-> lo + i - 1]

DenseVectors ==
    {DenseRun(-15, 31), DenseRun(-47, 34), DenseRun(16, 34),
     DenseRun(-16, 33) \o <<250>>}

\* Input dates: the calendar dates, their neighbours, 2024-01-15, and the
\* ends of the i32 range (the dates -infinity and infinity).
InputDates ==
    DateSet \cup {d - 1 : d \in DateSet} \cup {d + 1 : d \in DateSet}
            \cup {8780, MinI32, MaxI32}

Intervals == {MinI32, -1, 0, 1, 2, MaxI32}

NoCall == [op |-> "new", date |-> 0, interval |-> 0]

\* ------------------------------------------------------------------------
\* SpecMath: actions
\* ------------------------------------------------------------------------

\* lib.rs:289-328 on a calendar whose dates were loaded.
MBuild ==
    /\ m_call.op = "new"
    /\ Len(m_cal.dates) > 0
    /\ m_cal' = BuildPageIndex(m_cal).cal
    /\ m_call' = [NoCall EXCEPT !.op = "build"]
    /\ UNCHANGED <<m_ret>>
    /\ UNCHANGED cacheVars

\* get_closest_index_from_left(d, calendar) on a built calendar.  The
\* functions are pure and the calendar is not changed by a call: one call
\* per behaviour reaches every (calendar, arguments, outcome).
MFloor(d) ==
    /\ m_call.op = "build"
    /\ m_ret' = Val(get_closest_index_from_left(d, m_cal))
    /\ m_call' = [op |-> "floor", date |-> d, interval |-> 0]
    /\ UNCHANGED <<m_cal>>
    /\ UNCHANGED cacheVars

\* add_calendar_days(calendar, d, k) on a built or an empty calendar
MAddDays(d, k) ==
    /\ m_call.op = "build" \/ (m_call.op = "new" /\ Len(m_cal.dates) = 0)
    /\ \E o \in add_calendar_days(m_cal, d, k) : m_ret' = o
    /\ m_call' = [op |-> "add", date |-> d, interval |-> k]
    /\ UNCHANGED <<m_cal>>
    /\ UNCHANGED cacheVars

\* ------------------------------------------------------------------------
\* Spec: backends and the DataSource
\* ------------------------------------------------------------------------

\* Number of concurrent backends.
NumProcs == 2

\* Longest dates vector and longest page map a calendar of the shared map
\* may reach: repeated fills append to both without any bound but the
\* capacity of the heapless vectors.
MaxDates == 3
MaxPageMap == 4

Procs == 1..NumProcs

\* What the three queries of lib.rs:17-32 return: the schema check (Q1), the
\* enumeration (Q3: calendar id, entry count, xuid) and the row stream (Q4).
CalRow(i, n, x) == [id |-> i, entry_count |-> n, xuid |-> x]
DateRow(i, d) == [calendar_id |-> i, date |-> d]

\* two calendars, one on both sides of day 0
DS_Two ==
    [valid |-> TRUE,
     cals |-> <<CalRow(1, 2, "a"), CalRow(2, 3, "b")>>,
     rows |-> <<DateRow(1, 0), DateRow(1, 20),
                DateRow(2, -5), DateRow(2, 3), DateRow(2, 40)>>]
\* one calendar
DS_One ==
    [valid |-> TRUE,
     cals |-> <<CalRow(1, 3, "a")>>,
     rows |-> <<DateRow(1, 10), DateRow(1, 11), DateRow(1, 12)>>]
\* no calendar at all
DS_None == [valid |-> TRUE, cals |-> <<>>, rows |-> <<>>]
\* a calendar without dates (an enumeration query that lists every calendar)
DS_NoDates ==
    [valid |-> TRUE,
     cals |-> <<CalRow(1, 0, "a"), CalRow(2, 1, "b")>>,
     rows |-> <<DateRow(2, 7)>>]
\* the schema check fails
DS_BadSchema == [valid |-> FALSE, cals |-> <<>>, rows |-> <<>>]
\* a row of a calendar the enumeration did not give
DS_UnknownId ==
    [valid |-> TRUE,
     cals |-> <<CalRow(2, 1, "b")>>,
     rows |-> <<DateRow(2, 7), DateRow(3, 9)>>]
\* fewer rows than counted
DS_Mismatch ==
    [valid |-> TRUE,
     cals |-> <<CalRow(1, 1, "a"), CalRow(2, 2, "b")>>,
     rows |-> <<DateRow(1, 5), DateRow(2, 7)>>]
\* a calendar with more entries than MAX_ENTRIES_PER_CALENDAR
DS_TooMany ==
    [valid |-> TRUE,
     cals |-> <<CalRow(1, 1, "a"), CalRow(2, MAX_ENTRIES_PER_CALENDAR + 1, "b")>>,
     rows |-> <<DateRow(1, 5)>>]

DataSources ==
    {DS_Two, DS_One, DS_None, DS_NoDates, DS_BadSchema, DS_UnknownId,
     DS_Mismatch, DS_TooMany}

\* calendar 3, then a calendar with more entries than MAX_ENTRIES_PER_CALENDAR
DS_Three ==
    [valid |-> TRUE,
     cals |-> <<CalRow(3, 1, "c"), CalRow(4, MAX_ENTRIES_PER_CALENDAR + 1, "d")>>,
     rows |-> <<DateRow(3, 9)>>]
\* a row of calendar 3, which the enumeration did not give, counted with
\* the rows of calendar 2
DS_Orphan ==
    [valid |-> TRUE,
     cals |-> <<CalRow(2, 2, "b")>>,
     rows |-> <<DateRow(2, 7), DateRow(3, 9)>>]
\* a stream that is not in calendar order, and a count of calendar 1 that
\* is one more than its rows
DS_Unsorted ==
    [valid |-> TRUE,
     cals |-> <<CalRow(1, 3, "a"), CalRow(2, 1, "b")>>,
     rows |-> <<DateRow(1, 0), DateRow(2, 5), DateRow(1, 20)>>]
\* one calendar more than MAX_CALENDARS, each with one date
DS_ManyCalendars ==
    [valid |-> TRUE,
     cals |-> [j \in 1..(MAX_CALENDARS + 1) |-> CalRow(j, 1, ToString(j))],
     rows |-> [j \in 1..(MAX_CALENDARS + 1) |-> DateRow(j, 7)]]

\* The databases of SpecLoad: one that honours the contract, and those
\* that break the contract of the row stream or exceed a capacity.
LoadSources ==
    {DS_Two, DS_NoDates, DS_UnknownId, DS_TooMany, DS_Three, DS_Orphan,
     DS_Unsorted, DS_ManyCalendars}

RowsOf(d, i) == {j \in 1..Len(d.rows) : d.rows[j].calendar_id = i}

\* The DataSource contract of the queries: a compatible schema, one
\* enumeration row per calendar by ascending id, distinct xuids, and the
\* rows by ascending calendar id then date, exactly those counted.
Honours(d) ==
    /\ d.valid
    /\ \A i, j \in 1..Len(d.cals) :
           i < j => /\ d.cals[i].id < d.cals[j].id
                    /\ d.cals[i].xuid # d.cals[j].xuid
    /\ \A i \in 1..Len(d.cals) :
           /\ d.cals[i].entry_count <= MAX_ENTRIES_PER_CALENDAR
           /\ Cardinality(RowsOf(d, d.cals[i].id)) = d.cals[i].entry_count
    /\ \A j \in 1..Len(d.rows) :
           \E i \in 1..Len(d.cals) : d.cals[i].id = d.rows[j].calendar_id
    /\ \A i, j \in 1..Len(d.rows) :
           i < j => \/ d.rows[i].calendar_id < d.rows[j].calendar_id
                    \/ /\ d.rows[i].calendar_id = d.rows[j].calendar_id
                       /\ d.rows[i].date < d.rows[j].date

\* Arguments of the lookups.
LookupIds == {1, 2, 3}
LookupXuids == {"a", "b", "zz"}
LookupDates == {-6, 3, 11, 41}
LookupIntervals == {-1, 0, 1}

Ops == {"populate", "invalidate", "add_days_by_id", "add_days", "cache_info"}

\* ------------------------------------------------------------------------
\* ensure_cache_populated: the three passes over the shared maps
\* ------------------------------------------------------------------------

\* one row of the enumeration without the entry count check of
\* lib.rs:175-181
EnumRow_nocheck(row, st) ==
    IF ~st.ok THEN st
    ELSE LET ins_id == MapInsert(st.id_map, row.id, DefaultCalendar, MAX_CALENDARS)
             ins_xuid == MapInsert(st.xuid_map, row.xuid, row.id, MAX_CALENDARS)
         IN  IF ~ins_id.ok THEN [st EXCEPT !.ok = FALSE]
             ELSE IF ~ins_xuid.ok
             THEN [st EXCEPT !.ok = FALSE, !.id_map = ins_id.map]
             ELSE [id_map |-> ins_id.map,
                   xuid_map |-> ins_xuid.map,
                   calendar_count |-> st.calendar_count + 1,
                   total_entry_count |-> st.total_entry_count + row.entry_count,
                   ok |-> TRUE]

\* lib.rs:161-193: one row of the enumeration.  st holds the two maps, the
\* two counters and ok (FALSE once error! or unwrap fired, which ends the
\* loop; what was inserted before stays in the maps).
EnumRow(row, st) ==
    IF ~st.ok THEN st
    ELSE LET ins_id == MapInsert(st.id_map, row.id, DefaultCalendar, MAX_CALENDARS)
             ins_xuid == MapInsert(st.xuid_map, row.xuid, row.id, MAX_CALENDARS)
         IN  IF MAX_ENTRIES_PER_CALENDAR < row.entry_count
             THEN [st EXCEPT !.ok = FALSE]
             ELSE IF ~ins_id.ok THEN [st EXCEPT !.ok = FALSE]
             ELSE IF ~ins_xuid.ok
             THEN [st EXCEPT !.ok = FALSE, !.id_map = ins_id.map]
             ELSE [id_map |-> ins_id.map,
                   xuid_map |-> ins_xuid.map,
                   calendar_count |-> st.calendar_count + 1,
                   total_entry_count |-> st.total_entry_count + row.entry_count,
                   ok |-> TRUE]

\* lib.rs:160-194: the loop over the rows lo..hi of the enumeration, in
\* order (the first half, then, unless the loop has ended with an error,
\* the second half from where the first left off).
RECURSIVE EnumRows(_, _, _, _)
EnumRows(cals, lo, hi, st) ==
    IF lo > hi THEN st
    ELSE IF lo = hi THEN EnumRow(cals[lo], st)
    ELSE LET mid == (lo + hi) \div 2
             first == EnumRows(cals, lo, mid, st)
         IN  IF ~first.ok THEN first ELSE EnumRows(cals, mid + 1, hi, first)

\* lib.rs:154-200
Enumeration(idm, xm, d) ==
    EnumRows(d.cals, 1, Len(d.cals),
             [id_map |-> idm, xuid_map |-> xm, calendar_count |-> 0,
              total_entry_count |-> 0, ok |-> TRUE])

\* lib.rs:234-251 and 260-277: the collected entries are appended to the
\* dates of prev_calendar_id, and the calendar's whole length is added to
\* total_entries.
FlushEntries(st) ==
    IF ~MapHas(st.id_map, st.prev_calendar_id) THEN [st EXCEPT !.ok = FALSE]
    ELSE LET cal == MapGet(st.id_map, st.prev_calendar_id)
             dates == cal.dates \o st.calendar_entries_vec
         IN  IF Len(dates) > MAX_ENTRIES_PER_CALENDAR THEN [st EXCEPT !.ok = FALSE]
             ELSE [st EXCEPT
                     !.id_map = MapSet(st.id_map, st.prev_calendar_id,
                                       [cal EXCEPT !.dates = dates]),
                     !.total_entries = st.total_entries + Len(dates)]

\* lib.rs:208-277: the rows of the stream from row i on.
RECURSIVE FillRows(_, _, _)
FillRows(rows, i, st) ==
    IF i > Len(rows) THEN FlushEntries(st)
    ELSE LET row == rows[i]
             first == IF st.prev_calendar_id = -1
                      THEN [st EXCEPT !.prev_calendar_id = row.calendar_id]
                      ELSE st
             flushed == IF first.prev_calendar_id # row.calendar_id
                        THEN [FlushEntries(first) EXCEPT
                                !.prev_calendar_id = row.calendar_id,
                                !.calendar_entries_vec = <<>>]
                        ELSE first
         IN  IF ~flushed.ok THEN [first EXCEPT !.ok = FALSE]
             ELSE FillRows(rows, i + 1,
                           [flushed EXCEPT !.calendar_entries_vec = Append(@, row.date)])

\* lib.rs:202-283
FillCache(idm, d) ==
    FillRows(d.rows, 1, [id_map |-> idm, prev_calendar_id |-> -1,
                         calendar_entries_vec |-> <<>>, total_entries |-> 0,
                         ok |-> TRUE])

\* lib.rs:289-328: the page index of every calendar of the map, in the
\* map's order, from entry i on; a panic leaves the later calendars as they
\* were.
RECURSIVE PageSizeInit(_, _)
PageSizeInit(idm, i) ==
    IF i > Len(idm) THEN [ok |-> TRUE, id_map |-> idm]
    ELSE LET b == BuildPageIndex(idm[i].v)
             idm2 == [idm EXCEPT ![i].v = b.cal]
         IN  IF b.ok THEN PageSizeInit(idm2, i + 1)
             ELSE [ok |-> FALSE, id_map |-> idm2]

\* The calendars of the map stay within the bounds of the model.
WithinBounds(idm) ==
    \A i \in 1..Len(idm) : /\ Len(idm[i].v.dates) <= MaxDates
                           /\ Len(idm[i].v.page_map) <= MaxPageMap

\* ------------------------------------------------------------------------
\* Spec: locks, locals and history
\* ------------------------------------------------------------------------

\* An LWLock: the backends holding it in exclusive and in shared mode.
FreeLock == [excl |-> {}, share |-> {}]

\* PgLwLock::exclusive() can be granted
CanLockExclusive(l) == l.excl = {} /\ l.share = {}
\* PgLwLock::share() can be granted
CanLockShare(l) == l.excl = {}

NoLocals ==
    [calendar_count |-> 0, total_entry_count |-> 0, total_entries |-> 0,
     calendar_id |-> 0, calendar_xuid |-> "", index |-> 0]

NoRet == [kind |-> "none", val |-> 0]

\* History of a backend's calls, kept to state the claims:
\*   alone        its current call began with every other backend idle and
\*                no other backend has taken a step since;
\*   from_filled  control.filled when that call began;
\*   prev         its previous call [op, outcome, from_filled], when that
\*                call ran alone and no other backend has stepped since.
NoPrev == [op |-> "none", outcome |-> "none", from_filled |-> FALSE]
NoHist == [alone |-> FALSE, from_filled |-> FALSE, prev |-> NoPrev]

HistCall(p) ==
    [q \in Procs |->
        IF q = p
        THEN [alone |-> \A r \in Procs \ {p} : pc[r] = "idle",
              from_filled |-> control.filled,
              prev |-> hist[p].prev]
        ELSE NoHist]

HistStep(p) == [q \in Procs |-> IF q = p THEN hist[p] ELSE NoHist]

HistReturn(p) ==
    [q \in Procs |->
        IF q = p
        THEN [alone |-> FALSE, from_filled |-> FALSE,
              prev |-> IF hist[p].alone
                       THEN [op |-> op[p], outcome |-> pc[p],
                             from_filled |-> hist[p].from_filled]
                       ELSE NoPrev]
        ELSE NoHist]

\* Where a call goes on once ensure_cache_populated has returned.
AfterPopulate(o) ==
    CASE o = "add_days_by_id" -> "by_id"
      [] o = "add_days" -> "by_xuid"
      [] OTHER -> "done"

\* ------------------------------------------------------------------------
\* Spec: actions
\* ------------------------------------------------------------------------

\* A backend calls hello_kq_fx_calendar (populate), kq_cx_invalidate_cache,
\* kq_cx_add_days_by_id, kq_cx_add_days or kq_cx_cache_info.
Call(p, o) ==
    /\ pc[p] = "idle"
    /\ op' = [op EXCEPT ![p] = o]
    /\ pc' = [pc EXCEPT ![p] = CASE o = "invalidate" -> "inv_xuid"
                                  [] o = "cache_info" -> "info_lock"
                                  [] OTHER -> "begin"]
    /\ hist' = HistCall(p)
    /\ UNCHANGED <<id_map, xuid_map, control, id_lock, xuid_lock, ds, loc, ret>>
    /\ UNCHANGED mathVars

\* ensure_cache_populated without the fast path of lib.rs:146-149
Begin_nofast(p) ==
    /\ pc[p] = "begin"
    /\ pc' = [pc EXCEPT ![p] = IF ~ds.valid THEN "failed" ELSE "enum_lock"]
    /\ hist' = HistStep(p)
    /\ UNCHANGED <<id_map, xuid_map, control, id_lock, xuid_lock, ds, op, loc, ret>>
    /\ UNCHANGED mathVars

\* lib.rs:146-150: the read of control.filled and validate_compatible_db.
Begin(p) ==
    /\ pc[p] = "begin"
    /\ pc' = [pc EXCEPT ![p] =
                IF control.filled THEN AfterPopulate(op[p])
                ELSE IF ~ds.valid THEN "failed"
                ELSE "enum_lock"]
    /\ hist' = HistStep(p)
    /\ UNCHANGED <<id_map, xuid_map, control, id_lock, xuid_lock, ds, op, loc, ret>>
    /\ UNCHANGED mathVars

\* lib.rs:155: CALENDAR_ID_MAP.exclusive()
EnumLock(p) ==
    /\ pc[p] = "enum_lock"
    /\ CanLockExclusive(id_lock)
    /\ id_lock' = [id_lock EXCEPT !.excl = {p}]
    /\ pc' = [pc EXCEPT ![p] = "enum"]
    /\ hist' = HistStep(p)
    /\ UNCHANGED <<id_map, xuid_map, control, xuid_lock, ds, op, loc, ret>>
    /\ UNCHANGED mathVars

\* lib.rs:156-200: CALENDAR_XUID_ID_MAP.exclusive(), the enumeration, and
\* the release of both locks at the end of the closure (or by the unwind).
Enumerate(p) ==
    /\ pc[p] = "enum"
    /\ CanLockExclusive(xuid_lock)
    /\ LET r == Enumeration(id_map, xuid_map, ds)
       IN  /\ id_map' = r.id_map
           /\ xuid_map' = r.xuid_map
           /\ loc' = [loc EXCEPT ![p].calendar_count = r.calendar_count,
                                 ![p].total_entry_count = r.total_entry_count]
           /\ pc' = [pc EXCEPT ![p] = IF r.ok THEN "fill" ELSE "failed"]
    /\ id_lock' = [id_lock EXCEPT !.excl = {}]
    /\ hist' = HistStep(p)
    /\ UNCHANGED <<control, xuid_lock, ds, op, ret>>
    /\ UNCHANGED mathVars

\* lib.rs:202-286: the row stream under CALENDAR_ID_MAP.exclusive(), then
\* the comparison of the two totals.
Fill(p) ==
    /\ pc[p] = "fill"
    /\ CanLockExclusive(id_lock)
    /\ LET r == FillCache(id_map, ds)
       IN  /\ WithinBounds(r.id_map)
           /\ id_map' = r.id_map
           /\ loc' = [loc EXCEPT ![p].total_entries = r.total_entries]
           /\ pc' = [pc EXCEPT ![p] =
                       IF r.ok /\ r.total_entries = loc[p].total_entry_count
                       THEN "page" ELSE "failed"]
    /\ hist' = HistStep(p)
    /\ UNCHANGED <<xuid_map, control, id_lock, xuid_lock, ds, op, ret>>
    /\ UNCHANGED mathVars

\* lib.rs:289-328: the page index of every calendar, under
\* CALENDAR_ID_MAP.exclusive().
PageInit(p) ==
    /\ pc[p] = "page"
    /\ CanLockExclusive(id_lock)
    /\ LET r == PageSizeInit(id_map, 1)
       IN  /\ WithinBounds(r.id_map)
           /\ id_map' = r.id_map
           /\ pc' = [pc EXCEPT ![p] = IF r.ok THEN "publish" ELSE "failed"]
    /\ hist' = HistStep(p)
    /\ UNCHANGED <<xuid_map, control, id_lock, xuid_lock, ds, op, loc, ret>>
    /\ UNCHANGED mathVars

\* lib.rs:330-336
Publish(p) ==
    /\ pc[p] = "publish"
    /\ control' = [entry_count |-> loc[p].total_entry_count,
                   calendar_count |-> loc[p].calendar_count,
                   filled |-> TRUE]
    /\ pc' = [pc EXCEPT ![p] = AfterPopulate(op[p])]
    /\ hist' = HistStep(p)
    /\ UNCHANGED <<id_map, xuid_map, id_lock, xuid_lock, ds, op, loc, ret>>
    /\ UNCHANGED mathVars

\* lib.rs:532: CALENDAR_XUID_ID_MAP.exclusive().clear()
InvClearXuid(p) ==
    /\ pc[p] = "inv_xuid"
    /\ CanLockExclusive(xuid_lock)
    /\ xuid_map' = <<>>
    /\ pc' = [pc EXCEPT ![p] = "inv_id"]
    /\ hist' = HistStep(p)
    /\ UNCHANGED <<id_map, control, id_lock, xuid_lock, ds, op, loc, ret>>
    /\ UNCHANGED mathVars

\* kq_cx_invalidate_cache without the clear() of CALENDAR_ID_MAP
InvClearId_skip(p) ==
    /\ pc[p] = "inv_id"
    /\ CanLockExclusive(id_lock)
    /\ pc' = [pc EXCEPT ![p] = "inv_control"]
    /\ hist' = HistStep(p)
    /\ UNCHANGED <<id_map, xuid_map, control, id_lock, xuid_lock, ds, op, loc, ret>>
    /\ UNCHANGED mathVars

\* lib.rs:534: CALENDAR_ID_MAP.exclusive().clear()
InvClearId(p) ==
    /\ pc[p] = "inv_id"
    /\ CanLockExclusive(id_lock)
    /\ id_map' = <<>>
    /\ pc' = [pc EXCEPT ![p] = "inv_control"]
    /\ hist' = HistStep(p)
    /\ UNCHANGED <<xuid_map, control, id_lock, xuid_lock, ds, op, loc, ret>>
    /\ UNCHANGED mathVars

\* lib.rs:536-538: *CALENDAR_CONTROL.exclusive() = CalendarControl::default()
InvResetControl(p) ==
    /\ pc[p] = "inv_control"
    /\ control' = [entry_count |-> 0, calendar_count |-> 0, filled |-> FALSE]
    /\ pc' = [pc EXCEPT ![p] = "done"]
    /\ hist' = HistStep(p)
    /\ UNCHANGED <<id_map, xuid_map, id_lock, xuid_lock, ds, op, loc, ret>>
    /\ UNCHANGED mathVars

\* What a lookup returns for the outcome o of add_calendar_days.
Finish(p, o) ==
    /\ pc' = [pc EXCEPT ![p] = IF o.panic THEN "failed" ELSE "done"]
    /\ ret' = [ret EXCEPT ![p] = IF o.panic THEN NoRet
                                 ELSE [kind |-> "date", val |-> o.val]]

\* A key that is not found raising an ERROR where the source warns
NotFound_error(p) ==
    /\ pc' = [pc EXCEPT ![p] = "failed"]
    /\ ret' = [ret EXCEPT ![p] = NoRet]

\* lib.rs:545-548 and 564-567: warning! and None
NotFound(p) ==
    /\ pc' = [pc EXCEPT ![p] = "done"]
    /\ ret' = [ret EXCEPT ![p] = [kind |-> "not_found", val |-> 0]]

\* lib.rs:544-556: kq_cx_add_days_by_id under CALENDAR_ID_MAP.share()
LookupById(p) ==
    /\ pc[p] = "by_id"
    /\ CanLockShare(id_lock)
    /\ \E calendar_id \in LookupIds, d \in LookupDates, k \in LookupIntervals :
          /\ loc' = [loc EXCEPT ![p].calendar_id = calendar_id]
          /\ IF ~MapHas(id_map, calendar_id) THEN NotFound(p)
             ELSE \E o \in add_calendar_days(MapGet(id_map, calendar_id), d, k) :
                     Finish(p, o)
    /\ hist' = HistStep(p)
    /\ UNCHANGED <<id_map, xuid_map, control, id_lock, xuid_lock, ds, op>>
    /\ UNCHANGED mathVars

\* lib.rs:562-567: kq_cx_add_days takes CALENDAR_XUID_ID_MAP.share() and
\* keeps it for the whole match.
LookupXuid(p) ==
    /\ pc[p] = "by_xuid"
    /\ CanLockShare(xuid_lock)
    /\ \E calendar_xuid \in LookupXuids :
          IF ~MapHas(xuid_map, calendar_xuid)
          THEN /\ NotFound(p)
               /\ loc' = [loc EXCEPT ![p].calendar_xuid = calendar_xuid]
               /\ UNCHANGED xuid_lock
          ELSE /\ xuid_lock' = [xuid_lock EXCEPT !.share = @ \cup {p}]
               /\ loc' = [loc EXCEPT ![p].calendar_xuid = calendar_xuid,
                                     ![p].calendar_id = MapGet(xuid_map, calendar_xuid)]
               /\ pc' = [pc EXCEPT ![p] = "by_xuid_id"]
               /\ UNCHANGED ret
    /\ hist' = HistStep(p)
    /\ UNCHANGED <<id_map, xuid_map, control, id_lock, ds, op>>
    /\ UNCHANGED mathVars

\* lib.rs:568-577: CALENDAR_ID_MAP.share().get(calendar_id).expect(..),
\* add_calendar_days on the clone, and the release of the xuid map's lock.
LookupXuidId(p) ==
    /\ pc[p] = "by_xuid_id"
    /\ CanLockShare(id_lock)
    /\ IF ~MapHas(id_map, loc[p].calendar_id)
       THEN Finish(p, Panic)
       ELSE \E d \in LookupDates, k \in LookupIntervals :
               \E o \in add_calendar_days(MapGet(id_map, loc[p].calendar_id), d, k) :
                   Finish(p, o)
    /\ xuid_lock' = [xuid_lock EXCEPT !.share = @ \ {p}]
    /\ hist' = HistStep(p)
    /\ UNCHANGED <<id_map, xuid_map, control, id_lock, ds, op, loc>>
    /\ UNCHANGED mathVars

\* lib.rs:371-373: get_calendars_info takes CALENDAR_ID_MAP.share() and
\* keeps it while it iterates; the iteration of an empty map ends at once.
InfoLock(p) ==
    /\ pc[p] = "info_lock"
    /\ CanLockShare(id_lock)
    /\ IF Len(id_map) = 0
       THEN /\ pc' = [pc EXCEPT ![p] = "done"]
            /\ UNCHANGED id_lock
       ELSE /\ pc' = [pc EXCEPT ![p] = "info_row"]
            /\ id_lock' = [id_lock EXCEPT !.share = @ \cup {p}]
    /\ hist' = HistStep(p)
    /\ UNCHANGED <<id_map, xuid_map, control, xuid_lock, ds, op, loc, ret>>
    /\ UNCHANGED mathVars

\* lib.rs:374-384 with 359-368: one calendar of the iteration.
\* get_calendar_xuid_from_id holds CALENDAR_XUID_ID_MAP.share() for the
\* search of the xuid that points to the calendar id, and unwraps what it
\* found; the lock of the id map is released after the last calendar, or by
\* the unwind of the panic.
InfoRow(p) ==
    /\ pc[p] = "info_row"
    /\ CanLockShare(xuid_lock)
    /\ LET calendar_id == id_map[loc[p].index + 1].k
           found == \E j \in 1..Len(xuid_map) : xuid_map[j].v = calendar_id
           last == loc[p].index + 1 = Len(id_map)
       IN  /\ pc' = [pc EXCEPT ![p] = IF ~found THEN "failed"
                                      ELSE IF last THEN "done"
                                      ELSE "info_row"]
           /\ loc' = [loc EXCEPT ![p].index = IF found /\ ~last THEN @ + 1 ELSE 0]
           /\ id_lock' = IF found /\ ~last THEN id_lock
                         ELSE [id_lock EXCEPT !.share = @ \ {p}]
    /\ hist' = HistStep(p)
    /\ UNCHANGED <<id_map, xuid_map, control, xuid_lock, ds, op, ret>>
    /\ UNCHANGED mathVars

\* The call returns to the client: its result, or the ERROR of a failed one.
Return(p) ==
    /\ pc[p] \in {"done", "failed"}
    /\ pc' = [pc EXCEPT ![p] = "idle"]
    /\ op' = [op EXCEPT ![p] = "none"]
    /\ loc' = [loc EXCEPT ![p] = NoLocals]
    /\ ret' = [ret EXCEPT ![p] = NoRet]
    /\ hist' = HistReturn(p)
    /\ UNCHANGED <<id_map, xuid_map, control, id_lock, xuid_lock, ds>>
    /\ UNCHANGED mathVars

\* The database changes between calls.
ChangeDataSource ==
    /\ \A p \in Procs : pc[p] = "idle"
    /\ \E d \in DataSources \ {ds} : ds' = d
    /\ UNCHANGED <<id_map, xuid_map, control, id_lock, xuid_lock, pc, op, loc, ret, hist>>
    /\ UNCHANGED mathVars

\* The database of SpecLoad changes between calls.
ChangeLoadSource ==
    /\ \A p \in Procs : pc[p] = "idle"
    /\ \E d \in LoadSources \ {ds} : ds' = d
    /\ UNCHANGED <<id_map, xuid_map, control, id_lock, xuid_lock, pc, op, loc, ret, hist>>
    /\ UNCHANGED mathVars

\* ------------------------------------------------------------------------
\* Specifications
\* ------------------------------------------------------------------------

\* pg_shmem_init! of lib.rs:87-89: empty maps, CalendarControl::default().
InitCache ==
    /\ id_map = <<>>
    /\ xuid_map = <<>>
    /\ control = [entry_count |-> 0, calendar_count |-> 0, filled |-> FALSE]
    /\ id_lock = FreeLock
    /\ xuid_lock = FreeLock
    /\ pc = [p \in Procs |-> "idle"]
    /\ op = [p \in Procs |-> "none"]
    /\ loc = [p \in Procs |-> NoLocals]
    /\ ret = [p \in Procs |-> NoRet]
    /\ hist = [p \in Procs |-> NoHist]

InitMathIdle ==
    /\ m_cal = DefaultCalendar
    /\ m_call = NoCall
    /\ m_ret = Val(0)

Init ==
    /\ InitCache
    /\ ds \in DataSources
    /\ InitMathIdle

Next ==
    \/ \E p \in Procs, o \in Ops : Call(p, o)
    \/ \E p \in Procs : Begin(p)
    \/ \E p \in Procs : EnumLock(p)
    \/ \E p \in Procs : Enumerate(p)
    \/ \E p \in Procs : Fill(p)
    \/ \E p \in Procs : PageInit(p)
    \/ \E p \in Procs : Publish(p)
    \/ \E p \in Procs : InvClearXuid(p)
    \/ \E p \in Procs : InvClearId(p)
    \/ \E p \in Procs : InvResetControl(p)
    \/ \E p \in Procs : LookupById(p)
    \/ \E p \in Procs : LookupXuid(p)
    \/ \E p \in Procs : LookupXuidId(p)
    \/ \E p \in Procs : InfoLock(p)
    \/ \E p \in Procs : InfoRow(p)
    \/ \E p \in Procs : Return(p)
    \/ ChangeDataSource

Spec == Init /\ [][Next]_vars

\* A calendar whose dates were loaded (or an empty one) and no call yet.
InitMath ==
    /\ InitCache
    /\ ds = DS_None
    /\ m_cal \in {[DefaultCalendar EXCEPT !.dates = s] :
                    s \in DatesVectors \cup DenseVectors}
    /\ m_call = NoCall
    /\ m_ret = Val(0)

NextMath ==
    \/ MBuild
    \/ \E d \in InputDates : MFloor(d)
    \/ \E d \in InputDates, k \in Intervals : MAddDays(d, k)

SpecMath == InitMath /\ [][NextMath]_vars

\* Concurrent callers of populate and of the lookups only, on the cache as
\* pg_shmem_init! left it: no invalidate, no change of the database.
NextFill ==
    \/ \E p \in Procs, o \in Ops \ {"invalidate", "cache_info"} : Call(p, o)
    \/ \E p \in Procs : Begin(p)
    \/ \E p \in Procs : EnumLock(p)
    \/ \E p \in Procs : Enumerate(p)
    \/ \E p \in Procs : Fill(p)
    \/ \E p \in Procs : PageInit(p)
    \/ \E p \in Procs : Publish(p)
    \/ \E p \in Procs : LookupById(p)
    \/ \E p \in Procs : LookupXuid(p)
    \/ \E p \in Procs : LookupXuidId(p)
    \/ \E p \in Procs : Return(p)

\* The database holds calendars and honours the DataSource contract.
InitFill ==
    /\ InitCache
    /\ ds \in {DS_Two, DS_One}
    /\ InitMathIdle

SpecFill == InitFill /\ [][NextFill]_vars

\* Callers of populate and of invalidate only, while the database changes
\* between calls.  The lookups write neither map nor the control block, so
\* the caches reachable here are the caches reachable under Spec.
NextAdmin ==
    \/ \E p \in Procs, o \in {"populate", "invalidate"} : Call(p, o)
    \/ \E p \in Procs : Begin(p)
    \/ \E p \in Procs : EnumLock(p)
    \/ \E p \in Procs : Enumerate(p)
    \/ \E p \in Procs : Fill(p)
    \/ \E p \in Procs : PageInit(p)
    \/ \E p \in Procs : Publish(p)
    \/ \E p \in Procs : InvClearXuid(p)
    \/ \E p \in Procs : InvClearId(p)
    \/ \E p \in Procs : InvResetControl(p)
    \/ \E p \in Procs : Return(p)
    \/ ChangeDataSource

SpecAdmin == Init /\ [][NextAdmin]_vars

\* Backend 1 is a client that calls the two lookups; the other backends
\* call populate and invalidate.  The database holds calendars, honours the
\* DataSource contract and does not change.
NextQuery ==
    \/ \E o \in {"add_days_by_id", "add_days"} : Call(1, o)
    \/ \E p \in Procs \ {1}, o \in {"populate", "invalidate"} : Call(p, o)
    \/ \E p \in Procs : Begin(p)
    \/ \E p \in Procs : EnumLock(p)
    \/ \E p \in Procs : Enumerate(p)
    \/ \E p \in Procs : Fill(p)
    \/ \E p \in Procs : PageInit(p)
    \/ \E p \in Procs : Publish(p)
    \/ \E p \in Procs : InvClearXuid(p)
    \/ \E p \in Procs : InvClearId(p)
    \/ \E p \in Procs : InvResetControl(p)
    \/ \E p \in Procs : LookupById(p)
    \/ \E p \in Procs : LookupXuid(p)
    \/ \E p \in Procs : LookupXuidId(p)
    \/ \E p \in Procs : Return(p)

SpecQuery == InitFill /\ [][NextQuery]_vars

\* One backend that calls populate and invalidate, one call after the
\* other, while the database changes between its calls (LoadSources).
InitLoad ==
    /\ InitCache
    /\ ds \in LoadSources
    /\ InitMathIdle

NextLoad ==
    \/ \E o \in {"populate", "invalidate"} : Call(1, o)
    \/ Begin(1)
    \/ EnumLock(1)
    \/ Enumerate(1)
    \/ Fill(1)
    \/ PageInit(1)
    \/ Publish(1)
    \/ InvClearXuid(1)
    \/ InvClearId(1)
    \/ InvResetControl(1)
    \/ Return(1)
    \/ ChangeLoadSource

SpecLoad == InitLoad /\ [][NextLoad]_vars

\* ------------------------------------------------------------------------
\* Definitions used to state the claims
\* ------------------------------------------------------------------------

\* prev + interval < 0 and prev + interval >= n as integers, without
\* forming the sum.
SumNegative(a, b) == b < -a
SumAtLeast(a, b, n) == b >= n - a

LastDate(cal) == cal.dates[Len(cal.dates)]

\* The page of a date in a built calendar.
PageOf(cal, d) == TruncDiv(d, cal.page_size)

\* The backend has run the enumeration of its read cycle and has not yet
\* published or failed.
InReadCycle(p) == pc[p] \in {"fill", "page", "publish"}

\* ensure_cache_populated has returned normally to the backend's call.
Populated(p) ==
    \/ pc[p] \in {"by_id", "by_xuid", "by_xuid_id"}
    \/ pc[p] = "done" /\ op[p] # "invalidate"

\* The dates of the rows of calendar i, in stream order.
RECURSIVE StreamedDates(_, _, _)
StreamedDates(rows, i, j) ==
    IF j > Len(rows) THEN <<>>
    ELSE (IF rows[j].calendar_id = i THEN <<rows[j].date>> ELSE <<>>)
         \o StreamedDates(rows, i, j + 1)

RECURSIVE SumEntryCounts(_, _)
SumEntryCounts(cals, j) ==
    IF j > Len(cals) THEN 0 ELSE cals[j].entry_count + SumEntryCounts(cals, j + 1)

\* The shared cache holds exactly what DataSource d gives.
HoldsDataSource(d) ==
    /\ control.filled
    /\ MapKeys(id_map) = {d.cals[j].id : j \in 1..Len(d.cals)}
    /\ Len(id_map) = Len(d.cals)
    /\ \A j \in 1..Len(d.cals) :
          /\ MapHas(id_map, d.cals[j].id)
          /\ MapGet(id_map, d.cals[j].id).dates = StreamedDates(d.rows, d.cals[j].id, 1)
          /\ MapHas(xuid_map, d.cals[j].xuid)
          /\ MapGet(xuid_map, d.cals[j].xuid) = d.cals[j].id
    /\ Len(xuid_map) = Len(d.cals)
    /\ control.calendar_count = Len(d.cals)
    /\ control.entry_count = SumEntryCounts(d.cals, 1)

EmptyControl == [entry_count |-> 0, calendar_count |-> 0, filled |-> FALSE]

\* A population by one backend on the cache as pg_shmem_init! left it: how
\* it ends and what it leaves in shared memory.
FreshPopulation(d) ==
    IF ~d.valid
    THEN [outcome |-> "failed", id_map |-> <<>>, xuid_map |-> <<>>,
          control |-> EmptyControl]
    ELSE
    LET e == Enumeration(<<>>, <<>>, d)
        f == FillCache(e.id_map, d)
        g == PageSizeInit(f.id_map, 1)
    IN  IF ~e.ok
        THEN [outcome |-> "failed", id_map |-> e.id_map, xuid_map |-> e.xuid_map,
              control |-> EmptyControl]
        ELSE IF ~f.ok \/ f.total_entries # e.total_entry_count
        THEN [outcome |-> "failed", id_map |-> f.id_map, xuid_map |-> e.xuid_map,
              control |-> EmptyControl]
        ELSE IF ~g.ok
        THEN [outcome |-> "failed", id_map |-> g.id_map, xuid_map |-> e.xuid_map,
              control |-> EmptyControl]
        ELSE [outcome |-> "done", id_map |-> g.id_map, xuid_map |-> e.xuid_map,
              control |-> [entry_count |-> e.total_entry_count,
                           calendar_count |-> e.calendar_count,
                           filled |-> TRUE]]

\* Backend p's call has ended the way, and with the shared memory, a fresh
\* population from the current DataSource ends.
SameAsFresh(p) ==
    LET f == FreshPopulation(ds)
    IN  /\ pc[p] = f.outcome
        /\ id_map = f.id_map
        /\ xuid_map = f.xuid_map
        /\ control = f.control

\* Backend p's populate call has ended, and ran with no concurrent caller.
PopulateEndedAlone(p) ==
    /\ op[p] = "populate"
    /\ pc[p] \in {"done", "failed"}
    /\ hist[p].alone

\* ------------------------------------------------------------------------
\* Claims
\* ------------------------------------------------------------------------

\* C1 (fill-once): when several backends call populate, or a lookup that
\* auto-populates, concurrently against an Empty cache, at most one of them
\* is ever in a DataSource read cycle (the others start no second fill),
\* and ensure_cache_populated returns to a caller only when the cache is
\* Filled.  Stated under SpecFill; the code violates it.
C1_FillOnce ==
    /\ \A p, q \in Procs : (p # q /\ InReadCycle(p)) => ~InReadCycle(q)
    /\ \A p \in Procs : Populated(p) => control.filled

\* C2 (population correctness): a populate call that starts from an Empty
\* cache, runs with no concurrent caller and reads a DataSource honouring
\* its contract (a DataSource with zero calendars included) succeeds and
\* leaves the cache Filled with exactly the enumerated calendars, their
\* streamed dates, the xuid index and the enumerated counts.  The code
\* violates it.
C2_PopulationCorrect ==
    \A p \in Procs :
        (PopulateEndedAlone(p) /\ ~hist[p].from_filled /\ Honours(ds))
            => (pc[p] = "done" /\ HoldsDataSource(ds))

\* C3 (floor-search correctness): on a calendar built from non-empty
\* strictly ascending dates, for every d with dates[0] <= d <= dates[last],
\* get_closest_index_from_left(d) is the largest index i with dates[i] <= d.
C3_FloorSearch ==
    (/\ m_call.op = "floor"
     /\ m_cal.dates[1] <= m_call.date
     /\ m_call.date <= LastDate(m_cal))
        => LET i == m_ret.val
           IN  /\ ~m_ret.panic
               /\ i \in 0..(Len(m_cal.dates) - 1)
               /\ m_cal.dates[i + 1] <= m_call.date
               /\ (i + 2 <= Len(m_cal.dates) => m_cal.dates[i + 2] > m_call.date)

\* C3 witness: a floor search for a negative date that is not a calendar
\* date, inside a calendar that spans day 0 and more than one page.
C3_Witness ==
    /\ m_call.op = "floor"
    /\ m_call.date < 0
    /\ m_cal.dates[1] < m_call.date
    /\ m_call.date < LastDate(m_cal)
    /\ LastDate(m_cal) > 0
    /\ \A i \in 1..Len(m_cal.dates) : m_cal.dates[i] # m_call.date
    /\ Len(m_cal.page_map) > 1
    /\ m_ret.val >= 0

\* C4 (add_calendar_days cases): on a non-empty built calendar, with
\* prev = get_closest_index_from_left(input_date) and r = prev + interval,
\* the date add_calendar_days returns is DATE_PAST when prev < 0 or r < 0,
\* DATE_FUTURE when r >= dates.len(), and dates[r] otherwise.  (A call that
\* panics returns no date; C5 is the claim that none does.)  The code
\* violates it when prev + interval leaves the i32 range.
C4_AddDaysCases ==
    (m_call.op = "add" /\ Len(m_cal.dates) > 0 /\ ~m_ret.panic)
        => LET prev == get_closest_index_from_left(m_call.date, m_cal)
               k == m_call.interval
           IN  /\ m_ret.val =
                     IF prev < 0 \/ SumNegative(prev, k) THEN DATE_PAST
                     ELSE IF SumAtLeast(prev, k, Len(m_cal.dates)) THEN DATE_FUTURE
                     ELSE m_cal.dates[prev + k + 1]

\* C5 (saturation): on a non-empty built calendar, for every input date and
\* every i32 interval, add_calendar_days does not panic, prev + interval
\* does not leave the i32 range, and the result is a calendar date or one
\* of the two sentinel dates.  The code violates it.
C5_Saturation ==
    (m_call.op = "add" /\ Len(m_cal.dates) > 0)
        => /\ ~m_ret.panic
           /\ ~AddOverflows(get_closest_index_from_left(m_call.date, m_cal),
                            m_call.interval)
           /\ \/ m_ret.val \in {DATE_PAST, DATE_FUTURE}
              \/ \E i \in 1..Len(m_cal.dates) : m_cal.dates[i] = m_ret.val

\* C6 as claimed (boundary sentinels): get_closest_index_from_left(d) is -1
\* for every d < dates[0] and -(dates.len()) - 1 for every d > dates[last].
C6_Original ==
    (m_call.op = "floor")
        => /\ (m_call.date < m_cal.dates[1] => m_ret.val = -1)
           /\ (m_call.date > LastDate(m_cal) => m_ret.val = -Len(m_cal.dates) - 1)

\* C6 as amended: get_closest_index_from_left(d) is -1 for every
\* d < dates[0]; for d > dates[last] it is -(dates.len()) - 1 when d lies on
\* a later page than dates[last], and dates.len() - 1 (the floor) when d
\* lies on the page of dates[last].
C6_BoundarySentinels ==
    (m_call.op = "floor")
        => /\ (m_call.date < m_cal.dates[1] => m_ret.val = -1)
           /\ (m_call.date > LastDate(m_cal) =>
                 m_ret.val = IF PageOf(m_cal, m_call.date) > PageOf(m_cal, LastDate(m_cal))
                             THEN -Len(m_cal.dates) - 1
                             ELSE Len(m_cal.dates) - 1)

\* C6 witness: a search for a date past the last date, on a later page,
\* answered with the past-the-end sentinel.
C6_Witness ==
    /\ m_call.op = "floor"
    /\ Len(m_cal.dates) >= 2
    /\ m_call.date > LastDate(m_cal)
    /\ PageOf(m_cal, m_call.date) > PageOf(m_cal, LastDate(m_cal))
    /\ m_ret.val = -Len(m_cal.dates) - 1

\* C7 (identity): on a non-empty built calendar,
\* add_calendar_days(calendar, dates[i], 0) = dates[i] for every index i.
C7_Identity ==
    (/\ m_call.op = "add"
     /\ m_call.interval = 0
     /\ \E i \in 1..Len(m_cal.dates) : m_cal.dates[i] = m_call.date)
        => m_ret = Val(m_call.date)

\* C7 witness: the identity asked for the first, negative, date of a
\* calendar of several dates.
C7_Witness ==
    /\ m_call.op = "add"
    /\ m_call.interval = 0
    /\ Len(m_cal.dates) >= 2
    /\ m_cal.dates[1] = m_call.date
    /\ m_call.date < 0
    /\ m_ret = Val(m_call.date)

\* C8 (empty-calendar fallback): on a calendar without dates,
\* add_calendar_days(D, k) returns D + k for every D and k.  The code
\* violates it when D + k leaves the i32 range.
C8_EmptyFallback ==
    (m_call.op = "add" /\ Len(m_cal.dates) = 0)
        => /\ ~m_ret.panic
           /\ ~AddOverflows(m_call.date, m_call.interval)
           /\ m_ret.val = m_call.date + m_call.interval

\* C9 (failed fill recovery): when a populate call fails, the cache is
\* Empty afterwards and both maps hold no calendars; and a populate call
\* that follows a failed one, on a DataSource honouring its contract, ends
\* like a fresh population.  The code violates it.
C9_FailedFillRecovery ==
    \A p \in Procs :
        /\ (PopulateEndedAlone(p) /\ pc[p] = "failed")
              => (~control.filled /\ id_map = <<>> /\ xuid_map = <<>>)
        /\ (/\ PopulateEndedAlone(p)
            /\ hist[p].prev.op = "populate"
            /\ hist[p].prev.outcome = "failed"
            /\ Honours(ds))
              => (pc[p] = "done" /\ SameAsFresh(p))

\* C10 (invalidate/repopulate round trip): when a backend invalidates a
\* Filled cache and then populates, with no concurrent caller, the populate
\* call ends as a fresh population from the same DataSource ends: same
\* id map (dates, page_size, first_page_offset, page_map of every
\* calendar), same xuid map, same published counts.
C10_RoundTrip ==
    \A p \in Procs :
        (/\ PopulateEndedAlone(p)
         /\ hist[p].prev.op = "invalidate"
         /\ hist[p].prev.outcome = "done"
         /\ hist[p].prev.from_filled)
            => SameAsFresh(p)

\* C10 witness: a populate call that followed the invalidation of a Filled
\* cache has filled the cache again, with two calendars.
C10_Witness ==
    \E p \in Procs :
        /\ PopulateEndedAlone(p)
        /\ pc[p] = "done"
        /\ hist[p].prev = [op |-> "invalidate", outcome |-> "done", from_filled |-> TRUE]
        /\ control.filled
        /\ Len(id_map) = 2

\* No backend but p is inside a call: each is between calls, or its call
\* has ended and has only to return to the client.
OthersIdle(p) == \A q \in Procs \ {p} : pc[q] \in {"idle", "done", "failed"}

\* C11 (invalidate clears and succeeds): an invalidate call, made in any
\* reachable cache state, ends without error, and when it ends with no
\* other operation running both maps are empty, the state is Empty and the
\* published calendar and entry counts are zero.  The code violates it.
C11_InvalidateClears ==
    [][\A p \in Procs :
          (op[p] = "invalidate" /\ pc[p] = "inv_control" /\ pc'[p] # pc[p])
              => /\ pc'[p] = "done"
                 /\ OthersIdle(p) => /\ id_map' = <<>>
                                     /\ xuid_map' = <<>>
                                     /\ control' = EmptyControl]_vars

C13_Idempotent ==
    [][\A p \in Procs :
          /\ (op[p] = "populate" /\ pc[p] = "begin" /\ pc'[p] # pc[p] /\ control.filled)
                => /\ pc'[p] = "done"
                   /\ UNCHANGED <<id_map, xuid_map, control>>
          /\ (/\ op[p] = "populate" /\ pc'[p] # pc[p]
              /\ hist[p].alone /\ hist[p].from_filled)
                => /\ pc'[p] \in {"done", "idle"}
                   /\ UNCHANGED <<id_map, xuid_map, control>>]_vars

\* C13 witness: a second populate call, made on the Filled cache the first
\* one left, has returned, and the cache holds two calendars.
C13_Witness ==
    \E p \in Procs :
        /\ PopulateEndedAlone(p)
        /\ pc[p] = "done"
        /\ hist[p].from_filled
        /\ hist[p].prev.op = "populate"
        /\ hist[p].prev.outcome = "done"
        /\ control.filled
        /\ Len(id_map) = 2

\* C14 (list_calendars is read-only and safe): in every interleaving with
\* populate, invalidate and the lookups, and on an Empty cache, a
\* kq_cx_cache_info call ends without error or panic, no step of it changes
\* a map or the control record, and it starts no population.  The code
\* violates it.
C14_ListCalendarsSafe ==
    [][\A p \in Procs :
          (op[p] = "cache_info" /\ pc'[p] # pc[p])
              => /\ pc'[p] # "failed"
                 /\ pc'[p] \in {"info_row", "done", "idle"}
                 /\ UNCHANGED <<id_map, xuid_map, control>>]_vars

\* The calendar of SpecMath has just been built from its dates (the calls
\* that follow do not change it).
MathBuilt == m_call.op = "build"

\* C15 (page map shape): for a calendar built from non-empty strictly
\* ascending dates, page_map[0] = 0, page_map is non-decreasing,
\* page_map[k] is the smallest index i with
\* dates[i] / page_size >= first_page_offset + k, and page_map.len() is the
\* number of pages from the page of the first date to the page of the last.
C15_PageMapShape ==
    MathBuilt =>
        LET pm == m_cal.page_map
            n == Len(m_cal.dates)
            AtOrAfter(i, k) == PageOf(m_cal, m_cal.dates[i + 1]) >= m_cal.first_page_offset + k
        IN  /\ m_cal.page_size \in {WEEKLY_PAGE, MONTHLY_PAGE}
            /\ m_cal.first_page_offset = PageOf(m_cal, m_cal.dates[1])
            /\ Len(pm) = PageOf(m_cal, LastDate(m_cal)) - PageOf(m_cal, m_cal.dates[1]) + 1
            /\ pm[1] = 0
            /\ \A k \in 1..(Len(pm) - 1) : pm[k] <= pm[k + 1]
            /\ \A k \in 0..(Len(pm) - 1) :
                  /\ pm[k + 1] \in 0..(n - 1)
                  /\ AtOrAfter(pm[k + 1], k)
                  /\ \A i \in 0..(pm[k + 1] - 1) : ~AtOrAfter(i, k)

\* C15 witness: a built calendar that starts before day 0, spans three
\* pages or more and has a page without dates.
C15_Witness ==
    /\ m_call.op = "build"
    /\ m_cal.dates[1] < 0
    /\ LastDate(m_cal) > 0
    /\ Len(m_cal.page_map) >= 3
    /\ \E k \in 2..(Len(m_cal.page_map) - 1) : m_cal.page_map[k] = m_cal.page_map[k + 1]

\* Calendar cal, stored under id i, is fully built: the dates the
\* DataSource streams for i, a page size and a page map.
FullyBuilt(cal, i) ==
    /\ cal.dates = StreamedDates(ds.rows, i, 1)
    /\ cal.page_size > 0
    /\ Len(cal.page_map) > 0

\* C16 (no partial visibility of a fill): in every interleaving of lookups
\* with concurrent populate calls, the calendar a lookup computes on is
\* absent or fully built (complete dates, page_size > 0, non-empty
\* page_map), so that no lookup divides by a page_size of 0 or takes the
\* empty-calendar fallback for a calendar that has dates in the
\* DataSource.  The code violates it.
C16_NoPartialVisibility ==
    [][\A p \in Procs :
          /\ (/\ pc[p] = "by_id" /\ pc'[p] # pc[p]
              /\ MapHas(id_map, loc'[p].calendar_id))
                => FullyBuilt(MapGet(id_map, loc'[p].calendar_id), loc'[p].calendar_id)
          /\ (/\ pc[p] = "by_xuid_id" /\ pc'[p] # pc[p]
              /\ MapHas(id_map, loc[p].calendar_id))
                => FullyBuilt(MapGet(id_map, loc[p].calendar_id), loc[p].calendar_id)]_vars

\* The calendar ids the xuid map points to.
XuidTargets == {xuid_map[j].v : j \in 1..Len(xuid_map)}

\* No backend holds a map's lock in exclusive mode: another operation can
\* acquire the locks and observe the store.
Observable == id_lock.excl = {} /\ xuid_lock.excl = {}

\* C17 (the maps are never individually partially valid): at every point
\* where another operation can acquire a lock and observe the store, during
\* populate and during invalidate alike, the ids of the id map are the ids
\* the xuid map points to, and while the state is Filled the maps are not
\* cleared.  The code violates it.
C17_MapsTogether ==
    Observable =>
        /\ MapKeys(id_map) = XuidTargets
        /\ control.filled => (id_map # <<>> /\ xuid_map # <<>>)

\* Backend p is in the fill phase of ensure_cache_populated: it has found
\* the cache not filled and has neither published nor failed.
InFillPhase(p) == pc[p] \in {"enum_lock", "enum", "fill", "page", "publish"}

\* The state of the cache of the specification, read off the code's state:
\* Filled when control.filled, else Filling while a populator is in its
\* fill phase, else Empty.
CacheState ==
    IF control.filled THEN "Filled"
    ELSE IF \E p \in Procs : InFillPhase(p) THEN "Filling"
    ELSE "Empty"

LegalTransitions ==
    {<<"Empty", "Filling">>, <<"Filling", "Filled">>, <<"Filling", "Empty">>,
     <<"Filled", "Empty">>}

\* C18 (state transitions): the state of the cache changes only along
\* Empty -> Filling, Filling -> Filled, Filling -> Empty and, by
\* invalidate, Filled -> Empty; Empty -> Filling is won by one populator,
\* so that at most one populator is in its fill phase at any time.  The
\* code violates it.
C18_Transitions ==
    /\ [](\A p, q \in Procs : (InFillPhase(p) /\ InFillPhase(q)) => p = q)
    /\ [][/\ CacheState' # CacheState => <<CacheState, CacheState'>> \in LegalTransitions
          /\ (CacheState = "Filled" /\ CacheState' # "Filled")
                => \E p \in Procs : op[p] = "invalidate" /\ pc[p] = "inv_control"
                                    /\ pc'[p] = "done"]_vars

\* The page map the page-size pass builds from dates on a calendar that
\* has none.
FreshPageMap(dates) ==
    BuildPageIndex([DefaultCalendar EXCEPT !.dates = dates]).cal.page_map

WellFormed(cal) ==
    /\ IsAscending(cal.dates)
    /\ cal.page_size \in {WEEKLY_PAGE, MONTHLY_PAGE}
    /\ cal.page_map = FreshPageMap(cal.dates)

\* C19 (calendar well-formedness): with a DataSource that honours its
\* contract, in every reachable state in which the cache is Filled every
\* stored calendar has strictly ascending dates, a page size of 16 or 32
\* and the page map built once from those dates, and neither dates nor
\* page map changes while the cache stays Filled.  The code violates it.
C19_WellFormed ==
    /\ []((control.filled /\ Honours(ds))
            => \A i \in 1..Len(id_map) : WellFormed(id_map[i].v))
    /\ [][(control.filled /\ control'.filled /\ Honours(ds)) => id_map' = id_map]_vars

RECURSIVE SumDates(_, _)
SumDates(idm, i) ==
    IF i > Len(idm) THEN 0 ELSE Len(idm[i].v.dates) + SumDates(idm, i + 1)

\* No backend is inside a call.
NoOperation == \A p \in Procs : pc[p] \in {"idle", "done", "failed"}

\* C20 (published statistics match the store): in every reachable state in
\* which control.filled is true and no operation is in progress,
\* calendar_count is the number of calendars of the id map and entry_count
\* is the sum of the lengths of their dates; no interleaving of invalidate
\* with a fill leaves the cache Filled with empty maps.  The code violates
\* it.
C20_StatsMatchStore ==
    (control.filled /\ NoOperation)
        => /\ control.calendar_count = Len(id_map)
           /\ control.entry_count = SumDates(id_map, 1)
           /\ id_map # <<>>
           /\ xuid_map # <<>>

\* The lock backend p's next step acquires, and the mode it asks for.
WantsIdExclusive(p) == pc[p] \in {"enum_lock", "fill", "page", "inv_id"}
WantsIdShare(p) == pc[p] \in {"by_id", "by_xuid_id", "info_lock"}
WantsXuidExclusive(p) == pc[p] \in {"enum", "inv_xuid"}
WantsXuidShare(p) == pc[p] \in {"by_xuid", "info_row"}

HoldsId(q) == q \in id_lock.excl \cup id_lock.share
HoldsXuid(q) == q \in xuid_lock.excl \cup xuid_lock.share

\* Backend p waits for a lock that backend q holds in a conflicting mode.
WaitsOn(p, q) ==
    /\ p # q
    /\ \/ WantsIdExclusive(p) /\ HoldsId(q)
       \/ WantsIdShare(p) /\ q \in id_lock.excl
       \/ WantsXuidExclusive(p) /\ HoldsXuid(q)
       \/ WantsXuidShare(p) /\ q \in xuid_lock.excl

\* C21 (deadlock freedom): in every interleaving of populate, invalidate,
\* lookup and diagnostic calls in which no caller dies while holding a
\* lock, no reachable state has two callers waiting on each other's locks
\* (so that every call acquires the locks it needs and returns).  The code
\* violates it.
C21_DeadlockFree ==
    \A p, q \in Procs : ~(WaitsOn(p, q) /\ WaitsOn(q, p))


\* The rows of the stream whose calendar id is not in the enumeration.
OrphanRows(d) ==
    {j \in 1..Len(d.rows) :
        \A i \in 1..Len(d.cals) : d.cals[i].id # d.rows[j].calendar_id}

\* The fill of backend p's populate call has run (or the call has ended).
FillHasRun(p) == pc[p] \in {"page", "publish", "done", "failed"}

\* C22 (unknown calendar id): when the row stream holds a row whose
\* calendar id the enumeration step did not produce, the populate call
\* fails, the cache is not Filled, and no date of such a row is stored under
\* any calendar.  Stated under SpecLoad for a call that did not start on a
\* Filled cache; the code violates it.
C22_UnknownIdFatal ==
    \A p \in Procs :
        (/\ op[p] = "populate"
         /\ ~hist[p].from_filled
         /\ FillHasRun(p)
         /\ OrphanRows(ds) # {})
            => /\ pc[p] = "failed"
               /\ ~control.filled
               /\ \A j \in OrphanRows(ds), i \in 1..Len(id_map) :
                      \A k \in 1..Len(id_map[i].v.dates) :
                          id_map[i].v.dates[k] # ds.rows[j].date


\* Backend p's populate call has passed the comparison of lib.rs:284-286.
PassedCountCheck(p) == pc[p] \in {"page", "publish", "done"}

\* C23 (loaded-count check): a populate call gets past its fill, and so to
\* Filled, only if the number of dates it loaded into calendars (every row
\* of the stream) equals the total entry count its enumeration reported; on
\* a mismatch it fails and does not publish.  Stated under SpecLoad for a
\* call that did not start on a Filled cache; the code violates it.
C23_LoadedCountCheck ==
    \A p \in Procs :
        (op[p] = "populate" /\ ~hist[p].from_filled /\ PassedCountCheck(p))
            => Len(ds.rows) = loc[p].total_entry_count


\* The enumeration of d holds more calendars than MAX_CALENDARS, or a
\* calendar with more entries than MAX_ENTRIES_PER_CALENDAR.
ExceedsCapacity(d) ==
    \/ Cardinality({d.cals[i].id : i \in 1..Len(d.cals)}) > MAX_CALENDARS
    \/ \E i \in 1..Len(d.cals) : d.cals[i].entry_count > MAX_ENTRIES_PER_CALENDAR

\* C24 (capacity bounds): a populate call whose enumeration holds more
\* calendars than MAX_CALENDARS, or a calendar with more entries than
\* MAX_ENTRIES_PER_CALENDAR, never gets past the enumeration and the cache
\* is not Filled; and the maps never hold more than MAX_CALENDARS calendars
\* or xuids, nor a calendar more than MAX_ENTRIES_PER_CALENDAR dates.
\* Stated under SpecLoad for a call that did not start on a Filled cache.
C24_CapacityBounds ==
    /\ Len(id_map) <= MAX_CALENDARS
    /\ Len(xuid_map) <= MAX_CALENDARS
    /\ \A i \in 1..Len(id_map) :
           Len(id_map[i].v.dates) <= MAX_ENTRIES_PER_CALENDAR
    /\ \A p \in Procs :
           (op[p] = "populate" /\ ~hist[p].from_filled /\ ExceedsCapacity(ds))
               => /\ pc[p] \in {"begin", "enum_lock", "enum", "failed"}
                  /\ ~control.filled

\* The enumeration of one calendar more than MAX_CALENDARS has failed on a
\* full map.
C24_Witness ==
    /\ op[1] = "populate"
    /\ ~hist[1].from_filled
    /\ pc[1] = "failed"
    /\ Len(ds.cals) > MAX_CALENDARS
    /\ Len(id_map) = MAX_CALENDARS
    /\ Len(xuid_map) = MAX_CALENDARS


\* The calendars the enumeration of d gives with an entry count of zero.
ZeroEntryCalendars(d) ==
    {d.cals[i].id : i \in {j \in 1..Len(d.cals) : d.cals[j].entry_count = 0}}

\* C25 (zero-entry calendar): a populate call whose enumeration includes a
\* calendar with zero entries (and no rows), on a DataSource honouring its
\* contract, succeeds and reaches Filled, and leaves that calendar with
\* empty dates and no page index (page_size 0, empty page_map: the calendar
\* on which add_calendar_days returns input_date + interval).  Stated under
\* SpecLoad for a call that did not start on a Filled cache; the code
\* violates it.
C25_ZeroEntryCalendar ==
    \A p \in Procs :
        (/\ ZeroEntryCalendars(ds) # {}
         /\ PopulateEndedAlone(p)
         /\ ~hist[p].from_filled
         /\ Honours(ds))
            => /\ pc[p] = "done"
               /\ control.filled
               /\ \A i \in ZeroEntryCalendars(ds) :
                      /\ MapHas(id_map, i)
                      /\ MapGet(id_map, i) = DefaultCalendar


\* The window of page p (1-based position in page_map) that
\* get_closest_index_from_left hands to the binary search: from
\* page_map[p] up to page_map[p + 1], or to dates.len() for the last page.
WindowSize(cal, p) ==
    (IF p < Len(cal.page_map) THEN cal.page_map[p + 1] ELSE Len(cal.dates))
        - cal.page_map[p]

\* The page index (date / page_size) of the dates of that window.
WindowPage(cal, p) == cal.first_page_offset + p - 1

\* C26 as stated (bounded search window): on every built calendar, the
\* window of every page holds at most page_size date indices, wherever the
\* calendar lies relative to day 0.
C26_Original ==
    MathBuilt =>
        \A p \in 1..Len(m_cal.page_map) : WindowSize(m_cal, p) <= m_cal.page_size

\* C26 (bounded search window), amended: on every built calendar, the
\* window of every page holds at most page_size date indices, except the
\* window of page index 0, which holds at most 2 * page_size - 1: the
\* truncating division sends every day of (-page_size, page_size) to page 0.
C26_BoundedWindow ==
    MathBuilt =>
        \A p \in 1..Len(m_cal.page_map) :
            WindowSize(m_cal, p) <= IF WindowPage(m_cal, p) = 0
                                    THEN 2 * m_cal.page_size - 1
                                    ELSE m_cal.page_size

\* A built calendar astride day 0 whose page 0 holds 2 * page_size - 1
\* dates.
C26_Witness ==
    /\ MathBuilt
    /\ m_cal.dates[1] < 0
    /\ \E p \in 1..Len(m_cal.page_map) :
           /\ WindowPage(m_cal, p) = 0
           /\ WindowSize(m_cal, p) = 2 * m_cal.page_size - 1

=============================================================================
